---------------------------- MODULE Spec2Model ----------------------------
(***************************************************************************)
(* Model of the hashtag generator bot: generator.py (parse_input,          *)
(* generate_combinations, split_into_blocks, format_block) and the         *)
(* handle_input coroutine of bot.py.                                       *)
(*                                                                         *)
(* A string is a sequence of one-character strings.  The two label words   *)
(* of the parser are lexical units of the alphabet: "R" stands for one     *)
(* occurrence of the roots label (корни or roots, in any letter case) and  *)
(* "S" for one occurrence of the suffixes label (суффиксы or suffixes).    *)
(***************************************************************************)
EXTENDS Integers, Sequences, FiniteSets, TLC

VARIABLES
    seed,                                   \* the process's string hash seed
    text, pc, roots, suffixes, hashtags, blocks, idx, sent,  \* handle_input
    p_text, p_pc, p_roots, p_suffixes, p_outcome,   \* parse_input on its own
    g_roots, g_suffixes, g_pc, g_result,            \* generate_combinations
    s_items, s_size, s_pc, s_blocks                 \* split_into_blocks

hvars == <<text, pc, roots, suffixes, hashtags, blocks, idx, sent>>
pvars == <<p_text, p_pc, p_roots, p_suffixes, p_outcome>>
gvars == <<g_roots, g_suffixes, g_pc, g_result>>
svars == <<s_items, s_size, s_pc, s_blocks>>
vars == <<seed, hvars, pvars, gvars, svars>>

----------------------------------------------------------------------------
(* Characters and the str methods the code uses.                           *)

RootsLabel == "R"
SuffixesLabel == "S"

\* \s of the re module and the default argument of str.strip
IsSpace(c) == c \in {" ", "\n"}

\* str.lower on one character
LowerChar(c) ==
    CASE c = "A" -> "a"
      [] c = "B" -> "b"
      [] OTHER -> c

\* str.lower
Lower(s) == [k \in 1..Len(s) |-> LowerChar(s[k])]

\* first index >= k of s that holds no whitespace (Len(s)+1 when none)
RECURSIVE SkipSpaces(_, _)
SkipSpaces(s, k) ==
    IF k <= Len(s) /\ IsSpace(s[k]) THEN SkipSpaces(s, k + 1) ELSE k

\* last index <= k of s that holds no whitespace (0 when none)
RECURSIVE SkipSpacesBack(_, _)
SkipSpacesBack(s, k) ==
    IF k >= 1 /\ IsSpace(s[k]) THEN SkipSpacesBack(s, k - 1) ELSE k

\* str.strip
Strip(s) ==
    LET a == SkipSpaces(s, 1)
        b == SkipSpacesBack(s, Len(s))
    IN  IF a > b THEN <<>> ELSE SubSeq(s, a, b)

\* re.sub(r'\s+', ' ', s): every run of whitespace becomes one space
RECURSIVE CollapseSpaces(_)
CollapseSpaces(s) ==
    IF s = <<>> THEN <<>>
    ELSE IF IsSpace(s[1])
         THEN <<" ">> \o CollapseSpaces(SubSeq(s, SkipSpaces(s, 1), Len(s)))
         ELSE <<s[1]>> \o CollapseSpaces(Tail(s))

\* text = re.sub(r'\s+', ' ', text.strip())
Normalize(s) == CollapseSpaces(Strip(s))

\* str.split(","): the pieces between commas, empty pieces kept
RECURSIVE SplitFrom(_, _, _)
SplitFrom(s, k, cur) ==
    IF k > Len(s) THEN <<cur>>
    ELSE IF s[k] = "," THEN <<cur>> \o SplitFrom(s, k + 1, <<>>)
         ELSE SplitFrom(s, k + 1, Append(cur, s[k]))

Split(s) == SplitFrom(s, 1, <<>>)

\* mutant: the comprehension without its "if r.strip()" filter
StripKeepEmpty(pieces) == [k \in 1..Len(pieces) |-> Strip(pieces[k])]

\* [r.strip() for r in pieces if r.strip()]
RECURSIVE StripNonEmpty(_)
StripNonEmpty(pieces) ==
    IF pieces = <<>> THEN <<>>
    ELSE LET w == Strip(Head(pieces))
         IN  IF w = <<>> THEN StripNonEmpty(Tail(pieces))
             ELSE <<w>> \o StripNonEmpty(Tail(pieces))

\* group(1).strip() split on commas, stripped, empties dropped
Tokens(s) == StripNonEmpty(Split(Strip(s)))

\* separator.join(parts)
RECURSIVE Join(_, _)
Join(sep, parts) ==
    IF parts = <<>> THEN <<>>
    ELSE IF Len(parts) = 1 THEN parts[1]
         ELSE parts[1] \o sep \o Join(sep, Tail(parts))

----------------------------------------------------------------------------
(* parse_input: the two regular expressions, on the normalised text t.     *)
(* A match is the span [from, to] of group 1; NoMatch when search fails.   *)

NoMatch == [from |-> 0, to |-> 0]

\* label \s* : anchored at k; the index after the colon, 0 when no match
AfterLabelColon(t, k, label) ==
    IF k <= Len(t) /\ t[k] = label
    THEN LET c == SkipSpaces(t, k + 1)
         IN  IF c <= Len(t) /\ t[c] = ":" THEN c + 1 ELSE 0
    ELSE 0

\* mutant: the lookahead reduced to (?=$)
LookaheadEndOnly(t, k) == k = Len(t) + 1

\* the lookahead (?=\s*(?:суффиксы|suffixes)\s*:|$) at index k
Lookahead(t, k) ==
    \/ AfterLabelColon(t, SkipSpaces(t, k), SuffixesLabel) # 0
    \/ k = Len(t) + 1

\* ([^:]+?) followed by the lookahead, trying to end the group at index e:
\* the shortest capture, as the index of its last character; 0 when no
\* length works
RECURSIVE LazyNoColon(_, _)
LazyNoColon(t, e) ==
    IF e > Len(t) \/ t[e] = ":" THEN 0
    ELSE IF Lookahead(t, e + 1) THEN e
         ELSE LazyNoColon(t, e + 1)

\* mutant: the roots group written like the suffixes group, (.+?)$
RootsGroupToEnd(t, afterColon, a) ==
    IF a <= Len(t) THEN [from |-> a, to |-> Len(t)] ELSE NoMatch

\* \s* before the group is greedy: the group starts after all the
\* whitespace, then backtracks one whitespace character at a time
RECURSIVE RootsGroup(_, _, _)
RootsGroup(t, afterColon, a) ==
    IF a < afterColon THEN NoMatch
    ELSE LET e == LazyNoColon(t, a)
         IN  IF e # 0 THEN [from |-> a, to |-> e]
             ELSE RootsGroup(t, afterColon, a - 1)

\* re.search of the roots pattern: the leftmost start that matches
RECURSIVE RootsSearch(_, _)
RootsSearch(t, k) ==
    IF k > Len(t) THEN NoMatch
    ELSE LET c == AfterLabelColon(t, k, RootsLabel)
             m == IF c = 0 THEN NoMatch ELSE RootsGroup(t, c, SkipSpaces(t, c))
         IN  IF m # NoMatch THEN m ELSE RootsSearch(t, k + 1)

\* (.+?)$ from index a: "." is any character but a newline, and the lazy
\* group has to reach the end of the text
RECURSIVE NoNewline(_, _)
NoNewline(t, a) ==
    IF a > Len(t) THEN TRUE
    ELSE t[a] # "\n" /\ NoNewline(t, a + 1)

RECURSIVE SuffixesGroup(_, _, _)
SuffixesGroup(t, afterColon, a) ==
    IF a < afterColon THEN NoMatch
    ELSE IF a <= Len(t) /\ NoNewline(t, a) THEN [from |-> a, to |-> Len(t)]
         ELSE SuffixesGroup(t, afterColon, a - 1)

\* re.search of the suffixes pattern
RECURSIVE SuffixesSearch(_, _)
SuffixesSearch(t, k) ==
    IF k > Len(t) THEN NoMatch
    ELSE LET c == AfterLabelColon(t, k, SuffixesLabel)
             m == IF c = 0 THEN NoMatch
                  ELSE SuffixesGroup(t, c, SkipSpaces(t, c))
         IN  IF m # NoMatch THEN m ELSE SuffixesSearch(t, k + 1)

roots_match(raw) == RootsSearch(Normalize(raw), 1)
suffixes_match(raw) == SuffixesSearch(Normalize(raw), 1)

Group(t, m) == IF m = NoMatch THEN <<>> ELSE SubSeq(t, m.from, m.to)

\* parse_input(text): the pair (roots, suffixes)
parse_input(raw) ==
    LET t == Normalize(raw)
        rm == RootsSearch(t, 1)
        sm == SuffixesSearch(t, 1)
    IN  [roots |-> IF rm = NoMatch THEN <<>> ELSE Tokens(Group(t, rm)),
         suffixes |-> IF sm = NoMatch THEN <<>> ELSE Tokens(Group(t, sm))]

----------------------------------------------------------------------------
(* generate_combinations, split_into_blocks, format_block.                 *)

Range(f) == {f[k] : k \in DOMAIN f}

\* mutant: the hashtag without .lower()
HashtagNoLower(root, suffix) == <<"#">> \o root \o suffix

\* hashtag = f"#{root}{suffix}"; hashtag.lower()
Hashtag(root, suffix) == Lower(<<"#">> \o root \o suffix)

\* mutant: break instead of continue at an entry that strips to nothing
KeptBreak(ws) ==
    {Strip(ws[k]) : k \in {j \in DOMAIN ws : \A i \in 1..j : Strip(ws[i]) # <<>>}}

\* the entries the loops do not skip: root.strip() / suffix.strip() is
\* not empty
Kept(ws) == {Strip(ws[k]) : k \in {j \in DOMAIN ws : Strip(ws[j]) # <<>>}}

\* the two loops: every kept root with every kept suffix is added to the
\* set hashtags
HashtagSet(rts, sfx) == {Hashtag(r, s) : r \in Kept(rts), s \in Kept(sfx)}

RECURSIVE SeqOfSet(_)
SeqOfSet(S) ==
    IF S = {} THEN <<>>
    ELSE LET x == CHOOSE y \in S : TRUE IN <<x>> \o SeqOfSet(S \ {x})

Reverse(s) == [k \in 1..Len(s) |-> s[Len(s) + 1 - k]]

\* list(hashtags): the iteration order of a set of strings is fixed by
\* the process's hash seed and the members of the set
HashSeeds == {"ascending", "descending"}
ListOfSet(sd, S) == IF sd = "ascending" THEN SeqOfSet(S) ELSE Reverse(SeqOfSet(S))

\* mutant: hashtags kept in a list, appended to in loop order
generate_list(sd, rts, sfx) ==
    LET rs == StripNonEmpty(rts)
        ss == StripNonEmpty(sfx)
    IN  [k \in 1..(Len(rs) * Len(ss)) |->
            Hashtag(rs[((k - 1) \div Len(ss)) + 1], ss[((k - 1) % Len(ss)) + 1])]

generate_combinations(sd, rts, sfx) == ListOfSet(sd, HashtagSet(rts, sfx))

Min(a, b) == IF a <= b THEN a ELSE b

\* for i in range(0, len(hashtags), size): blocks.append(hashtags[i:i+size])
RECURSIVE BlocksFrom(_, _, _)
BlocksFrom(items, size, i) ==
    IF i >= Len(items) THEN <<>>
    ELSE <<SubSeq(items, i + 1, Min(i + size, Len(items)))>>
         \o BlocksFrom(items, size, i + size)

\* mutant: range(0, len(hashtags) - size + 1, size), the remainder dropped
split_full_blocks(items, size) ==
    [k \in 1..(Len(items) \div size) |-> SubSeq(items, (k - 1) * size + 1, k * size)]

split_into_blocks(items, size) == BlocksFrom(items, size, 0)

\* " ".join(block)
format_block(block) == Join(<<" ">>, block)

BLOCK_SIZE == 30

----------------------------------------------------------------------------
(* parse_input on every short text, followed by the validation of          *)
(* handle_input on what it returned.                                       *)

MaxLen == 6
Alphabet == {"a", " ", ",", ":", RootsLabel, SuffixesLabel}
Texts == UNION {[1..n -> Alphabet] : n \in 0..MaxLen}

\* mutant: the two validations in the other order
OutcomeSuffixesFirst(rts, sfx, tags) ==
    IF sfx = <<>> THEN "missing_suffixes"
    ELSE IF rts = <<>> THEN "missing_roots"
    ELSE IF tags = <<>> THEN "empty_result"
    ELSE "ok"

\* the branch handle_input takes on the parsed lists and the hashtags
Outcome(rts, sfx, tags) ==
    IF rts = <<>> THEN "missing_roots"
    ELSE IF sfx = <<>> THEN "missing_suffixes"
    ELSE IF tags = <<>> THEN "empty_result"
    ELSE "ok"

ParseInit ==
    /\ p_text \in Texts
    /\ p_pc = "call"
    /\ p_roots = <<>>
    /\ p_suffixes = <<>>
    /\ p_outcome = "none"

Parse ==
    /\ p_pc = "call"
    /\ p_roots' = parse_input(p_text).roots
    /\ p_suffixes' = parse_input(p_text).suffixes
    /\ p_pc' = "parsed"
    /\ UNCHANGED <<p_text, p_outcome>>

Validate ==
    /\ p_pc = "parsed"
    /\ p_outcome' = Outcome(p_roots, p_suffixes,
                            generate_combinations(seed, p_roots, p_suffixes))
    /\ p_pc' = "validated"
    /\ UNCHANGED <<p_text, p_roots, p_suffixes>>

----------------------------------------------------------------------------
(* generate_combinations on lists of words that parse_input need not have  *)
(* produced: blank words, words with surrounding whitespace, capitals.     *)

MaxWords == 2
Words == {<<" ">>, <<"a">>, <<"A">>, <<" ", "a", " ">>, <<"a", "b">>, <<"b", "a">>}
WordLists == UNION {[1..n -> Words] : n \in 0..MaxWords}

GenInit ==
    /\ g_roots \in WordLists
    /\ g_suffixes \in WordLists
    /\ g_pc = "call"
    /\ g_result = <<>>

Generate ==
    /\ g_pc = "call"
    /\ g_result' = generate_combinations(seed, g_roots, g_suffixes)
    /\ g_pc' = "returned"
    /\ UNCHANGED <<g_roots, g_suffixes>>

----------------------------------------------------------------------------
(* split_into_blocks on every short sequence and every small block size.   *)

MaxItems == 5
MaxSize == 4
Items == {"x", "y"}

SplitInit ==
    /\ s_items \in UNION {[1..n -> Items] : n \in 0..MaxItems}
    /\ s_size \in 1..MaxSize
    /\ s_pc = "call"
    /\ s_blocks = <<>>

SplitIntoBlocks ==
    /\ s_pc = "call"
    /\ s_blocks' = split_into_blocks(s_items, s_size)
    /\ s_pc' = "returned"
    /\ UNCHANGED <<s_items, s_size>>

----------------------------------------------------------------------------
(* handle_input: one coroutine per inbound message, run by one event loop. *)
(* A step runs from one await to the next; the reply a step sends is       *)
(* appended to the replies of its own message.                             *)

Procs == {"m1", "m2"}

Reply(kind, count, nblocks, i, len, body, rts, sfx, sections) ==
    [kind |-> kind, count |-> count, nblocks |-> nblocks, i |-> i, len |-> len,
     body |-> body, roots |-> rts, suffixes |-> sfx, sections |-> sections]

Plain(kind) == Reply(kind, 0, 0, 0, 0, <<>>, <<>>, <<>>, <<>>)

\* lines 117-123: the summary
Summary(tags, blks, rts, sfx) ==
    Reply("summary", Len(tags), Len(blks), 0, 0, <<>>,
          Join(<<",", " ">>, rts), Join(<<",", " ">>, sfx), <<>>)

\* lines 127-132: the reply for block i
BlockReply(blks, i) ==
    Reply("block", 0, Len(blks), i, Len(blks[i]), format_block(blks[i]),
          <<>>, <<>>, <<>>)

\* lines 135-152: hashtags.txt, its header and one section per block
Document(tags, blks, rts, sfx) ==
    Reply("document", Len(tags), 0, 0, 0, <<>>,
          Join(<<",", " ">>, rts), Join(<<",", " ">>, sfx),
          [i \in 1..Len(blks) |-> [i |-> i, body |-> format_block(blks[i])]])

\* mutant: the reply is sent on a module-level message, the one handled last
SendShared(p, reply) == sent' = [q \in Procs |-> Append(sent[q], reply)]

\* await message.answer(...) / message.answer_document(...)
Send(p, reply) == sent' = [sent EXCEPT ![p] = Append(@, reply)]

\* lines 84-123: parse, validate, generate, split, up to the first await
HandleInput(p) ==
    /\ pc[p] = "start"
    /\ LET parsed == parse_input(text[p])
           tags == generate_combinations(seed, parsed.roots, parsed.suffixes)
           blks == split_into_blocks(tags, BLOCK_SIZE)
           outcome == Outcome(parsed.roots, parsed.suffixes, tags)
       IN  /\ roots' = [roots EXCEPT ![p] = parsed.roots]
           /\ suffixes' = [suffixes EXCEPT ![p] = parsed.suffixes]
           /\ IF outcome \in {"missing_roots", "missing_suffixes"}
              THEN /\ Send(p, Plain(outcome))
                   /\ pc' = [pc EXCEPT ![p] = "return"]
                   /\ UNCHANGED <<hashtags, blocks, idx>>
              ELSE IF outcome = "empty_result"
              THEN /\ hashtags' = [hashtags EXCEPT ![p] = tags]
                   /\ Send(p, Plain(outcome))
                   /\ pc' = [pc EXCEPT ![p] = "return"]
                   /\ UNCHANGED <<blocks, idx>>
              ELSE /\ hashtags' = [hashtags EXCEPT ![p] = tags]
                   /\ blocks' = [blocks EXCEPT ![p] = blks]
                   /\ Send(p, Summary(tags, blks, parsed.roots, parsed.suffixes))
                   /\ idx' = [idx EXCEPT ![p] = 1]
                   /\ pc' = [pc EXCEPT ![p] = "blocks"]
    /\ UNCHANGED text

\* lines 96, 104, 111: the await of a failure reply is over; return
Return(p) ==
    /\ pc[p] = "return"
    /\ pc' = [pc EXCEPT ![p] = "done"]
    /\ UNCHANGED <<text, roots, suffixes, hashtags, blocks, idx, sent>>

\* lines 126-132: one iteration of the loop over the blocks
SendBlock(p) ==
    /\ pc[p] = "blocks"
    /\ idx[p] <= Len(blocks[p])
    /\ Send(p, BlockReply(blocks[p], idx[p]))
    /\ idx' = [idx EXCEPT ![p] = @ + 1]
    /\ UNCHANGED <<text, pc, roots, suffixes, hashtags, blocks>>

\* mutant: the file is sent from inside the loop
SendDocumentEarly(p) ==
    /\ pc[p] = "blocks"
    /\ Send(p, Document(hashtags[p], blocks[p], roots[p], suffixes[p]))
    /\ pc' = [pc EXCEPT ![p] = "log"]
    /\ UNCHANGED <<text, roots, suffixes, hashtags, blocks, idx>>

\* lines 135-152: the loop is over; build and send the file
SendDocument(p) ==
    /\ pc[p] = "blocks"
    /\ idx[p] > Len(blocks[p])
    /\ Send(p, Document(hashtags[p], blocks[p], roots[p], suffixes[p]))
    /\ pc' = [pc EXCEPT ![p] = "log"]
    /\ UNCHANGED <<text, roots, suffixes, hashtags, blocks, idx>>

\* line 154: logger.info, and the coroutine ends
Finish(p) ==
    /\ pc[p] = "log"
    /\ pc' = [pc EXCEPT ![p] = "done"]
    /\ UNCHANGED <<text, roots, suffixes, hashtags, blocks, idx, sent>>

\* Message texts: the documented formats, one or both labels missing, the
\* labels in the other order, a colon inside a segment, blank entries, and
\* one message with more hashtags than a block holds.
Seg(label, words) == <<label, ":", " ">> \o Join(<<",", " ">>, words)

\* six one-letter roots and six one-letter suffixes: 36 hashtags, two blocks
Letters == <<<<"a">>, <<"b">>, <<"c">>, <<"d">>, <<"e">>, <<"f">>>>
BigMessage == Seg(RootsLabel, Letters) \o <<"\n">> \o Seg(SuffixesLabel, Letters)

MsgWords == {<<>>, <<<<"a">>>>, <<<<"a">>, <<>>, <<"A">>, <<"B">>>>}

Messages ==
    {Seg(RootsLabel, r) \o <<"\n">> \o Seg(SuffixesLabel, s) :
        r \in MsgWords, s \in MsgWords}
    \cup {Seg(RootsLabel, r) : r \in MsgWords}
    \cup {Seg(SuffixesLabel, s) : s \in MsgWords}
    \cup {Seg(RootsLabel, <<<<"a">>>>) \o <<" ">> \o Seg(SuffixesLabel, <<<<"b">>>>),
          Seg(SuffixesLabel, <<<<"a">>>>) \o <<"\n">> \o Seg(RootsLabel, <<<<"b">>>>),
          <<"a">>,
          <<RootsLabel, ":", "a", ":", "b">>,
          <<RootsLabel, ":", "a", ":", "b", " ", SuffixesLabel, ":", "a">>,
          BigMessage}

HandlerInit ==
    /\ text \in [Procs -> Messages]
    /\ pc = [p \in Procs |-> "start"]
    /\ roots = [p \in Procs |-> <<>>]
    /\ suffixes = [p \in Procs |-> <<>>]
    /\ hashtags = [p \in Procs |-> <<>>]
    /\ blocks = [p \in Procs |-> <<>>]
    /\ idx = [p \in Procs |-> 0]
    /\ sent = [p \in Procs |-> <<>>]

----------------------------------------------------------------------------
(* The specifications.  Each one runs one part of the program and leaves   *)
(* the state of the other parts at rest.                                   *)

HandlerIdle ==
    /\ text = [p \in Procs |-> <<>>]
    /\ pc = [p \in Procs |-> "done"]
    /\ roots = [p \in Procs |-> <<>>]
    /\ suffixes = [p \in Procs |-> <<>>]
    /\ hashtags = [p \in Procs |-> <<>>]
    /\ blocks = [p \in Procs |-> <<>>]
    /\ idx = [p \in Procs |-> 0]
    /\ sent = [p \in Procs |-> <<>>]

ParseIdle ==
    /\ p_text = <<>>
    /\ p_pc = "idle"
    /\ p_roots = <<>>
    /\ p_suffixes = <<>>
    /\ p_outcome = "none"

GenIdle ==
    /\ g_roots = <<>>
    /\ g_suffixes = <<>>
    /\ g_pc = "idle"
    /\ g_result = <<>>

SplitIdle ==
    /\ s_items = <<>>
    /\ s_size = 1
    /\ s_pc = "idle"
    /\ s_blocks = <<>>

Init ==
    /\ seed \in HashSeeds
    /\ HandlerInit
    /\ ParseIdle /\ GenIdle /\ SplitIdle

Next ==
    \E p \in Procs :
        \/ HandleInput(p) /\ UNCHANGED <<seed, pvars, gvars, svars>>
        \/ Return(p) /\ UNCHANGED <<seed, pvars, gvars, svars>>
        \/ SendBlock(p) /\ UNCHANGED <<seed, pvars, gvars, svars>>
        \/ SendDocument(p) /\ UNCHANGED <<seed, pvars, gvars, svars>>
        \/ Finish(p) /\ UNCHANGED <<seed, pvars, gvars, svars>>

Spec == Init /\ [][Next]_vars

ParseSpecInit ==
    /\ seed = "ascending"
    /\ ParseInit
    /\ HandlerIdle /\ GenIdle /\ SplitIdle

ParseNext ==
    \/ Parse /\ UNCHANGED <<seed, hvars, gvars, svars>>
    \/ Validate /\ UNCHANGED <<seed, hvars, gvars, svars>>

SpecParse == ParseSpecInit /\ [][ParseNext]_vars

GenSpecInit ==
    /\ seed \in HashSeeds
    /\ GenInit
    /\ HandlerIdle /\ ParseIdle /\ SplitIdle

GenNext == Generate /\ UNCHANGED <<seed, hvars, pvars, svars>>

SpecGen == GenSpecInit /\ [][GenNext]_vars

SplitSpecInit ==
    /\ seed = "ascending"
    /\ SplitInit
    /\ HandlerIdle /\ ParseIdle /\ GenIdle

SplitNext == SplitIntoBlocks /\ UNCHANGED <<seed, hvars, pvars, gvars>>

SpecSplit == SplitSpecInit /\ [][SplitNext]_vars

----------------------------------------------------------------------------
(* generate_combinations: C1, C2, C7.                                      *)

IsBlank(w) == \A k \in 1..Len(w) : IsSpace(w[k])

Trim(w) ==
    LET keep == {k \in 1..Len(w) : ~IsSpace(w[k])}
    IN  IF keep = {} THEN <<>>
        ELSE SubSeq(w, CHOOSE a \in keep : \A b \in keep : a <= b,
                       CHOOSE a \in keep : \A b \in keep : a >= b)

\* C1: cross-product completeness.  For every entry r of roots and every
\* entry s of suffixes that are both non-empty after trimming, the list
\* generate_combinations returns contains lowercase("#" + trim(r) + trim(s)).
C1_CrossProductComplete ==
    g_pc = "returned" =>
        \A i \in 1..Len(g_roots), j \in 1..Len(g_suffixes) :
            (~IsBlank(g_roots[i]) /\ ~IsBlank(g_suffixes[j])) =>
                \E k \in 1..Len(g_result) :
                    g_result[k] = Lower(<<"#">> \o Trim(g_roots[i]) \o Trim(g_suffixes[j]))

\* a call with two roots and two suffixes, one of them blank and one with
\* surrounding whitespace, has returned hashtags
C1_Witness ==
    /\ g_pc = "returned"
    /\ g_roots = <<<<" ">>, <<" ", "a", " ">>>>
    /\ g_suffixes = <<<<"A">>, <<"b", "a">>>>
    /\ Len(g_result) = 2

\* C2: uniqueness.  No string occurs more than once in the list
\* generate_combinations returns, whatever repeated entries, case variants
\* or surrounding whitespace the two input lists hold.
C2_Unique ==
    g_pc = "returned" =>
        \A i, j \in 1..Len(g_result) : i # j => g_result[i] # g_result[j]

\* four pairs of entries that all normalise to the same hashtag gave one
C2_Witness ==
    /\ g_pc = "returned"
    /\ g_roots = <<<<"a">>, <<"A">>>>
    /\ g_suffixes = <<<<" ", "a", " ">>, <<"A">>>>
    /\ g_result = <<<<"#", "a", "a">>>>

\* C7 as stated: with both lists non-empty, generate_combinations returns
\* zero hashtags only if every entry of roots and every entry of suffixes
\* is whitespace-only.
C7_Original ==
    (g_pc = "returned" /\ g_roots # <<>> /\ g_suffixes # <<>> /\ g_result = <<>>) =>
        /\ \A i \in 1..Len(g_roots) : IsBlank(g_roots[i])
        /\ \A j \in 1..Len(g_suffixes) : IsBlank(g_suffixes[j])

\* C7 amended: with both lists non-empty, generate_combinations returns zero
\* hashtags only if every entry of roots is whitespace-only or every entry
\* of suffixes is whitespace-only.
C7_EmptyOnlyIfOneSideBlank ==
    (g_pc = "returned" /\ g_roots # <<>> /\ g_suffixes # <<>> /\ g_result = <<>>) =>
        \/ \A i \in 1..Len(g_roots) : IsBlank(g_roots[i])
        \/ \A j \in 1..Len(g_suffixes) : IsBlank(g_suffixes[j])

\* zero hashtags from a blank root beside a real one and blank suffixes
C7_Witness ==
    /\ g_pc = "returned"
    /\ g_roots = <<<<"a">>, <<" ">>>>
    /\ g_suffixes = <<<<" ">>>>
    /\ g_result = <<>>

----------------------------------------------------------------------------
(* split_into_blocks: C3.                                                  *)

RECURSIVE Concat(_)
Concat(blks) == IF blks = <<>> THEN <<>> ELSE Head(blks) \o Concat(Tail(blks))

\* C3: partition completeness.  For a sequence of length L and a block size
\* n >= 1 the result has ceil(L/n) blocks (none when L = 0), the blocks
\* concatenated in order are the input, every block but the last has n items
\* and the last has L mod n items, or n when n divides L.
C3_PartitionComplete ==
    s_pc = "returned" =>
        LET L == Len(s_items)
            n == s_size
            N == Len(s_blocks)
        IN  /\ N = (L + n - 1) \div n
            /\ (L = 0) => (s_blocks = <<>>)
            /\ Concat(s_blocks) = s_items
            /\ \A k \in 1..N : s_blocks[k] # <<>>
            /\ \A k \in 1..(N - 1) : Len(s_blocks[k]) = n
            /\ N > 0 => Len(s_blocks[N]) = (IF L % n = 0 THEN n ELSE L % n)

\* five items in blocks of two: two full blocks and a last block of one
C3_Witness ==
    /\ s_pc = "returned"
    /\ Len(s_items) = 5
    /\ s_size = 2
    /\ Len(s_blocks) = 3
    /\ Len(s_blocks[3]) = 1

----------------------------------------------------------------------------
(* parse_input: C4, C5, C10.  The vocabulary of the claims, stated on the  *)
(* whitespace-normalised text without the search functions of the model.   *)

\* the label at index k is followed, after optional whitespace, by a colon
LabelColonAt(t, k, label) ==
    /\ k \in 1..Len(t)
    /\ t[k] = label
    /\ \E c \in (k + 1)..Len(t) :
          /\ t[c] = ":"
          /\ \A j \in (k + 1)..(c - 1) : IsSpace(t[j])

ColonOf(t, k) == CHOOSE c \in (k + 1)..Len(t) : t[c] = ":" /\ \A j \in (k + 1)..(c - 1) : IsSpace(t[j])

LabelColons(t, label) == {k \in 1..Len(t) : LabelColonAt(t, k, label)}

SetMin(S) == CHOOSE x \in S : \A y \in S : x <= y

\* the text after the colon of the roots label at k, up to the next
\* suffixes label followed by a colon, or to the end of the text
SegmentOf(t, k) ==
    LET from == ColonOf(t, k) + 1
        stops == {q \in LabelColons(t, SuffixesLabel) : q >= from}
        to == IF stops = {} THEN Len(t) ELSE SetMin(stops) - 1
    IN  SubSeq(t, from, to)

Chars(words) == UNION {Range(words[k]) : k \in 1..Len(words)}

\* C4 as stated: when a roots label followed by a colon occurs, the roots
\* list is the comma-separated tokens (trimmed, empties dropped, in order)
\* of the text after that colon up to the next suffixes label followed by a
\* colon or the end of the text; with no roots label the list is empty.
C4_Original ==
    p_pc # "call" =>
        LET t == Normalize(p_text)
            labels == LabelColons(t, RootsLabel)
        IN  IF labels = {} THEN p_roots = <<>>
            ELSE \E k \in labels : p_roots = Tokens(SegmentOf(t, k))

\* C4 amended: the roots list is the tokens of the text after the colon of
\* the first roots label whose text, up to the next suffixes label followed
\* by a colon or the end of the text, is not empty and holds no colon; with
\* no such roots label the list is empty.
C4_RootsCapture ==
    p_pc # "call" =>
        LET t == Normalize(p_text)
            good == {k \in LabelColons(t, RootsLabel) :
                        SegmentOf(t, k) # <<>> /\ ":" \notin Range(SegmentOf(t, k))}
        IN  IF good = {} THEN p_roots = <<>>
            ELSE p_roots = Tokens(SegmentOf(t, SetMin(good)))

\* a roots segment that stops at the suffixes label, and yields a root
C4_Witness ==
    /\ p_pc = "parsed"
    /\ p_text = <<RootsLabel, ":", "a", SuffixesLabel, ":", "a">>
    /\ p_roots = <<<<"a">>>>

\* C5 as stated: when the text holds both a roots label and a suffixes
\* label, in either order, the span captured for roots and the span captured
\* for suffixes share no character, and the roots label does not show up in
\* the suffixes list.
C5_Original ==
    p_pc # "call" =>
        LET t == Normalize(p_text)
            rm == roots_match(p_text)
            sm == suffixes_match(p_text)
        IN  (LabelColons(t, RootsLabel) # {} /\ LabelColons(t, SuffixesLabel) # {}) =>
                /\ (rm # NoMatch /\ sm # NoMatch) => (rm.to < sm.from \/ sm.to < rm.from)
                /\ RootsLabel \notin Chars(p_suffixes)

\* C5 amended: when every roots label of the text stands before the first
\* suffixes label followed by a colon, the span captured for roots ends
\* before the span captured for suffixes begins, and the roots label does not
\* show up in the suffixes list.
C5_NoOverlapRootsFirst ==
    p_pc # "call" =>
        LET t == Normalize(p_text)
            rm == roots_match(p_text)
            sm == suffixes_match(p_text)
            sl == LabelColons(t, SuffixesLabel)
        IN  (/\ LabelColons(t, RootsLabel) # {}
             /\ sl # {}
             /\ \A k \in 1..Len(t) : t[k] = RootsLabel => k < SetMin(sl)) =>
                /\ (rm # NoMatch /\ sm # NoMatch) => rm.to < sm.from
                /\ RootsLabel \notin Chars(p_suffixes)
                /\ rm # NoMatch => rm.to < SetMin(sl)

\* both captures made, roots first, each yielding a word
C5_Witness ==
    /\ p_pc = "parsed"
    /\ p_text = <<RootsLabel, ":", "a", SuffixesLabel, ":", "a">>
    /\ roots_match(p_text) = [from |-> 3, to |-> 3]
    /\ suffixes_match(p_text) = [from |-> 6, to |-> 6]
    /\ p_suffixes = <<<<"a">>>>

\* C10: every token parse_input returns is non-empty and has no leading or
\* trailing whitespace, so whenever both lists are non-empty
\* generate_combinations returns a hashtag and handle_input never takes the
\* could-not-build-hashtags branch.
C10_EmptyResultUnreachable ==
    /\ p_pc # "call" =>
          \A w \in Range(p_roots) \cup Range(p_suffixes) :
              w # <<>> /\ ~IsSpace(w[1]) /\ ~IsSpace(w[Len(w)])
    /\ (p_pc # "call" /\ p_roots # <<>> /\ p_suffixes # <<>>) =>
          generate_combinations(seed, p_roots, p_suffixes) # <<>>
    /\ p_outcome # "empty_result"

\* both lists came back non-empty and the validation passed
C10_Witness ==
    /\ p_pc = "validated"
    /\ p_outcome = "ok"
    /\ p_text = <<RootsLabel, ":", "a", SuffixesLabel, ":", "a">>
    /\ p_roots = <<<<"a">>>> /\ p_suffixes = <<<<"a">>>>

----------------------------------------------------------------------------
(* handle_input: C6, C8, C9.                                               *)

Kinds(replies) == [k \in 1..Len(replies) |-> replies[k].kind]

\* the message holds a roots label followed by a colon and at least one
\* word after it
RootsLabelWithWord(t) ==
    \E k \in LabelColons(t, RootsLabel) :
        Tokens(SubSeq(t, ColonOf(t, k) + 1, Len(t))) # <<>>

\* the same, with no further colon after the colon of the label
RootsLabelWithWordNoColon(t) ==
    \E k \in LabelColons(t, RootsLabel) :
        LET rest == SubSeq(t, ColonOf(t, k) + 1, Len(t))
        IN  Tokens(rest) # <<>> /\ ":" \notin Range(rest)

\* the two validation failures end the request with one reply each
FailureReplies(p) ==
    /\ roots[p] = <<>> =>
          /\ Kinds(sent[p]) = <<"missing_roots">>
          /\ pc[p] \in {"return", "done"}
    /\ (roots[p] # <<>> /\ suffixes[p] = <<>>) =>
          /\ Kinds(sent[p]) = <<"missing_suffixes">>
          /\ pc[p] \in {"return", "done"}

\* C6 as stated: an empty roots list gives exactly one reply, the
\* missing-roots guidance; a non-empty roots list with an empty suffixes list
\* gives exactly one reply, the missing-suffixes guidance, in particular for
\* any input with a roots label carrying at least one word and no suffixes
\* label; no summary, block or document is sent in either case.
C6_Original ==
    \A p \in Procs :
        pc[p] # "start" =>
            /\ FailureReplies(p)
            /\ (/\ RootsLabelWithWord(Normalize(text[p]))
                /\ SuffixesLabel \notin Range(text[p])) =>
                   Kinds(sent[p]) = <<"missing_suffixes">>

\* C6 amended: as stated, the particular case being any input with a roots
\* label carrying at least one word, no further colon after the colon of
\* that label, and no suffixes label.
C6_ValidationFailure ==
    \A p \in Procs :
        pc[p] # "start" =>
            /\ FailureReplies(p)
            /\ (/\ RootsLabelWithWordNoColon(Normalize(text[p]))
                /\ SuffixesLabel \notin Range(text[p])) =>
                   Kinds(sent[p]) = <<"missing_suffixes">>

\* one request ended on the missing-suffixes guidance for a message with
\* only a roots label, the other on the missing-roots guidance
C6_Witness ==
    /\ text["m1"] = Seg(RootsLabel, <<<<"a">>>>)
    /\ pc["m1"] = "done"
    /\ Kinds(sent["m1"]) = <<"missing_suffixes">>
    /\ text["m2"] = Seg(SuffixesLabel, <<<<"a">>>>)
    /\ pc["m2"] = "done"
    /\ Kinds(sent["m2"]) = <<"missing_roots">>

\* what one invocation, run alone on the text txt, replies
HandlerReplies(sd, txt) ==
    LET parsed == parse_input(txt)
        tags == generate_combinations(sd, parsed.roots, parsed.suffixes)
        blks == split_into_blocks(tags, BLOCK_SIZE)
        outcome == Outcome(parsed.roots, parsed.suffixes, tags)
    IN  IF outcome # "ok" THEN <<Plain(outcome)>>
        ELSE <<Summary(tags, blks, parsed.roots, parsed.suffixes)>>
             \o [i \in 1..Len(blks) |-> BlockReply(blks, i)]
             \o <<Document(tags, blks, parsed.roots, parsed.suffixes)>>

IsPrefix(a, b) == Len(a) <= Len(b) /\ a = SubSeq(b, 1, Len(a))

\* C8: request isolation.  However the invocations interleave at their
\* awaits, the replies each one has sent are a prefix of what it replies when
\* run alone on its own message text, and all of it once it has ended: no
\* invocation's replies depend on another invocation.
C8_RequestIsolation ==
    \A p \in Procs :
        /\ IsPrefix(sent[p], HandlerReplies(seed, text[p]))
        /\ pc[p] = "done" => sent[p] = HandlerReplies(seed, text[p])

\* two invocations on different messages, interleaved: one has ended after
\* its two blocks and its document while the other is between two awaits
C8_Witness ==
    /\ text["m1"] = BigMessage
    /\ pc["m1"] = "done"
    /\ Len(sent["m1"]) = 4
    /\ text["m2"] = Seg(RootsLabel, <<<<"a">>>>) \o <<"\n">> \o Seg(SuffixesLabel, <<<<"a">>>>)
    /\ pc["m2"] = "blocks"
    /\ Len(sent["m2"]) = 2

RECURSIVE SumLen(_, _, _)
SumLen(replies, from, to) ==
    IF from > to THEN 0 ELSE replies[from].len + SumLen(replies, from + 1, to)

\* C9: success-path ordering.  When both parsed lists are non-empty and at
\* least one hashtag was generated, the replies are, in this order: one
\* summary, then one reply per block with the indices 1..N, then one document
\* listing the same blocks in the same order; the summary's count is the sum
\* of the block lengths, the document is never sent before the last block
\* reply, nothing follows it, and the handler ends only after it.
C9_SuccessOrdering ==
    \A p \in Procs :
        (pc[p] # "start" /\ roots[p] # <<>> /\ suffixes[p] # <<>> /\ hashtags[p] # <<>>) =>
            LET r == sent[p]
                N == r[1].nblocks
            IN  /\ Len(r) >= 1 /\ Len(r) <= N + 2
                /\ r[1].kind = "summary"
                /\ N >= 1
                /\ \A k \in 2..Len(r) :
                      IF k <= N + 1
                      THEN r[k].kind = "block" /\ r[k].i = k - 1 /\ r[k].nblocks = N
                      ELSE /\ r[k].kind = "document"
                           /\ Len(r[k].sections) = N
                           /\ \A j \in 1..N :
                                 /\ r[k].sections[j].i = j
                                 /\ r[k].sections[j].body = r[j + 1].body
                           /\ r[k].count = r[1].count
                /\ Len(r) >= N + 1 => r[1].count = SumLen(r, 2, N + 1)
                /\ pc[p] \in {"log", "done"} <=> Len(r) = N + 2

\* a request with two blocks has ended: summary, block 1, block 2, document
C9_Witness ==
    /\ text["m1"] = BigMessage
    /\ pc["m1"] = "done"
    /\ Kinds(sent["m1"]) = <<"summary", "block", "block", "document">>
    /\ sent["m1"][2].len = BLOCK_SIZE

=============================================================================
